---------------------------- MODULE Spec2Model ----------------------------
(***************************************************************************)
(* A model of interrogate's docstring-coverage engine:                     *)
(*   visit.py    CoverageVisitor: the AST walk that records CovNodes       *)
(*   coverage.py InterrogateCoverage: the filter stages, the per-file      *)
(*               tally, the run tally and the fail-under verdict           *)
(*                                                                         *)
(* Strings are sequences of one-character strings, so that startswith,     *)
(* endswith, strip and concatenation are computed and not assumed.         *)
(* A compiled regular expression is modelled by a literal pattern:         *)
(* regexp.match(name) holds iff the name starts with the literal.          *)
(* A CovNode is an object compared by identity (attr.s(eq=False)); the     *)
(* model identifies it with its index in visitor.nodes, and parent         *)
(* references and node lists hold such indexes (0 is None).                *)
(***************************************************************************)
EXTENDS Integers, Sequences, FiniteSets, TLC

VARIABLES
    config,        \* InterrogateCoverage.config
    filenames,     \* the argument of _get_coverage: the parsed files, in order
    fidx,          \* index of the file _get_coverage is working on (0: none yet)
    pc,            \* position in _get_coverage / _get_file_coverage
    stack,         \* CoverageVisitor.stack
    cursor,        \* next AST node generic_visit will dispatch (document order)
    nodes,         \* CoverageVisitor.nodes: the CovNode objects of the file
    filtered,      \* filtered_nodes of _get_file_coverage
    file_results,  \* file_results of _get_coverage
    results        \* the InterrogateResults of the run

vars == <<config, filenames, fidx, pc, stack, cursor, nodes, filtered,
          file_results, results>>

-----------------------------------------------------------------------------
(* Bounds of the model *)

\* most modules, classes and functions in the files of one run, all files
\* together
MaxNodes == 4

\* most files in one run
MaxFiles == 2

\* most definitions of the file of SpecVisit
MaxDefs == 2

\* most functions of the file of SpecThreshold
MaxFuncs == 7

\* most characters of a generated name of SpecNames
MaxNameLen == 5

-----------------------------------------------------------------------------
(* Strings *)

startswith(s, p) == Len(p) <= Len(s) /\ SubSeq(s, 1, Len(p)) = p

endswith(s, p) == Len(p) <= Len(s) /\ SubSeq(s, Len(s) - Len(p) + 1, Len(s)) = p

RECURSIVE lstrip(_)
lstrip(s) == IF s /= <<>> /\ Head(s) = " " THEN lstrip(Tail(s)) ELSE s

RECURSIVE rstrip(_)
rstrip(s) ==
    IF s /= <<>> /\ s[Len(s)] = " " THEN rstrip(SubSeq(s, 1, Len(s) - 1)) ELSE s

strip(s) == rstrip(lstrip(s))

\* regexp.match(name) for a literal pattern: anchored at the start only
re_match(regexp, name) == startswith(name, regexp)

S_init == <<"_", "_", "i", "n", "i", "t", "_", "_">>
S_dunder == <<"_", "_">>
S_under == <<"_">>
S_dotpy == <<".", "p", "y">>
S_property == <<"p", "r", "o", "p", "e", "r", "t", "y">>
S_setter == <<"s", "e", "t", "t", "e", "r">>
S_deleter == <<"d", "e", "l", "e", "t", "e", "r">>
S_overload == <<"o", "v", "e", "r", "l", "o", "a", "d">>
S_typing == <<"t", "y", "p", "i", "n", "g">>

-----------------------------------------------------------------------------
(* The parsed tree.  A file is [filename, doc, body]: body lists the class *)
(* and function definitions of the module in document order; each has      *)
(*   type   "ClassDef", "FunctionDef" or "AsyncFunctionDef"                *)
(*   name   its identifier                                                 *)
(*   doc    [present, text]: the docstring ast.get_docstring returns       *)
(*   decorator_list  a sequence of decorator expressions                   *)
(*   parent the index in body of the nearest enclosing definition, 0 for   *)
(*          the module (generic_visit reaches a definition through any     *)
(*          statement that holds it)                                       *)
(* A decorator expression is [kind, id, attr, value_id]: kind "Name" has   *)
(* an id; kind "Attribute" has an attr and, when its value is a Name, a    *)
(* value_id; kind "Call" has neither.  Absent attributes are <<>>.         *)
(***************************************************************************)

NoDoc == [present |-> FALSE, text |-> <<>>]
Doc(t) == [present |-> TRUE, text |-> t]

DecName(id) == [kind |-> "Name", id |-> id, attr |-> <<>>, value_id |-> <<>>]
DecAttr(value_id, attr) ==
    [kind |-> "Attribute", id |-> <<>>, attr |-> attr, value_id |-> value_id]
DecCall == [kind |-> "Call", id |-> <<>>, attr |-> <<>>, value_id |-> <<>>]

\* is AST node j inside the definition i (i = 0: the module)
RECURSIVE IsInside(_, _, _)
IsInside(body, j, i) ==
    IF j = 0 THEN FALSE
    ELSE body[j].parent = i \/ IsInside(body, body[j].parent, i)

\* the last AST node of the subtree of definition i
SubtreeEnd(body, i) ==
    LET inside == {j \in i + 1 .. Len(body) : IsInside(body, j, i)}
    IN  IF inside = {} THEN i ELSE CHOOSE j \in inside : \A k \in inside : k <= j

-----------------------------------------------------------------------------
(* visit.py: CoverageVisitor *)

\* CoverageVisitor._has_doc
has_doc(doc) == doc.present /\ strip(doc.text) /= <<>>

\* CoverageVisitor._is_nested_func; parent is a CovNode index of ns, 0 for None
is_nested_func(ns, parent, node_type) ==
    IF parent = 0 THEN FALSE
    ELSE IF ns[parent].node_type = "FunctionDef" /\ node_type = "FunctionDef"
         THEN TRUE
         ELSE FALSE

\* CoverageVisitor._is_nested_cls
is_nested_cls(ns, parent, node_type) ==
    IF parent = 0 THEN FALSE
    ELSE IF ns[parent].node_type \in {"ClassDef", "FunctionDef"}
            /\ node_type = "ClassDef"
         THEN TRUE
         ELSE FALSE

\* an _is_private for names of exactly two leading underscores
is_private_exactly_two(name) ==
    /\ startswith(name, S_dunder)
    /\ ~startswith(name, <<"_", "_", "_">>)
    /\ ~endswith(name, S_dunder)

\* an _is_private without the exemption of names that end with "__"
is_private_of_dunder(name) == startswith(name, S_dunder)

\* CoverageVisitor._is_private
is_private(name) ==
    IF endswith(name, S_dunder) THEN FALSE
    ELSE IF ~startswith(name, S_dunder) THEN FALSE
    ELSE TRUE

\* CoverageVisitor._is_semiprivate
is_semiprivate(name) ==
    IF endswith(name, S_dunder) THEN FALSE
    ELSE IF startswith(name, S_dunder) THEN FALSE
    ELSE IF ~startswith(name, S_under) THEN FALSE
    ELSE TRUE

\* an _is_ignored_common whose private rule is switched off by
\* ignore_semiprivate
is_ignored_common_exclusive(conf, node) ==
    \/ conf.ignore_private /\ ~conf.ignore_semiprivate /\ is_private(node.name)
    \/ conf.ignore_semiprivate /\ is_semiprivate(node.name)
    \/ \E k \in 1 .. Len(conf.ignore_regex) :
          re_match(conf.ignore_regex[k], node.name)

\* an _is_ignored_common whose patterns are searched for anywhere in the
\* name (regexp.search) and not matched from its start
is_ignored_common_search(conf, node) ==
    \/ conf.ignore_private /\ is_private(node.name)
    \/ conf.ignore_semiprivate /\ is_semiprivate(node.name)
    \/ \E k \in 1 .. Len(conf.ignore_regex) :
          \E o \in 0 .. Len(node.name) :
             re_match(conf.ignore_regex[k],
                      SubSeq(node.name, o + 1, Len(node.name)))

\* CoverageVisitor._is_ignored_common
is_ignored_common(conf, node) ==
    \/ conf.ignore_private /\ is_private(node.name)
    \/ conf.ignore_semiprivate /\ is_semiprivate(node.name)
    \/ \E k \in 1 .. Len(conf.ignore_regex) :
          re_match(conf.ignore_regex[k], node.name)

\* CoverageVisitor._has_property_decorators
has_property_decorators(node) ==
    \E k \in 1 .. Len(node.decorator_list) :
       LET dec == node.decorator_list[k]
       IN  \/ dec.kind = "Name" /\ dec.id = S_property
           \/ dec.kind = "Attribute" /\ dec.attr = S_setter
           \/ dec.kind = "Attribute" /\ dec.attr = S_deleter

\* CoverageVisitor._has_setters
has_setters(node) ==
    \E k \in 1 .. Len(node.decorator_list) :
       LET dec == node.decorator_list[k]
       IN  dec.kind = "Attribute" /\ dec.attr = S_setter

\* CoverageVisitor._has_overload_decorator
has_overload_decorator(node) ==
    \E k \in 1 .. Len(node.decorator_list) :
       LET dec == node.decorator_list[k]
       IN  \/ dec.kind = "Attribute" /\ dec.value_id = S_typing
              /\ dec.attr = S_overload
           \/ dec.kind = "Name" /\ dec.id = S_overload

\* an _is_func_ignored for which __init__ is a magic method too
is_func_ignored_magic_init(conf, node) ==
    LET is_init == node.name = S_init
        is_magic == /\ startswith(node.name, S_dunder)
                    /\ endswith(node.name, S_dunder)
    IN  \/ conf.ignore_init_method /\ is_init
        \/ conf.ignore_magic /\ is_magic
        \/ conf.ignore_property_decorators /\ has_property_decorators(node)
        \/ conf.ignore_property_setters /\ has_setters(node)
        \/ conf.ignore_overloaded_functions /\ has_overload_decorator(node)
        \/ is_ignored_common(conf, node)

\* CoverageVisitor._is_func_ignored
is_func_ignored(conf, node) ==
    LET is_init == node.name = S_init
        is_magic == /\ startswith(node.name, S_dunder)
                    /\ endswith(node.name, S_dunder)
                    /\ node.name /= S_init
    IN  \/ conf.ignore_init_method /\ is_init
        \/ conf.ignore_magic /\ is_magic
        \/ conf.ignore_property_decorators /\ has_property_decorators(node)
        \/ conf.ignore_property_setters /\ has_setters(node)
        \/ conf.ignore_overloaded_functions /\ has_overload_decorator(node)
        \/ is_ignored_common(conf, node)

\* CoverageVisitor._is_class_ignored
is_class_ignored(conf, node) == is_ignored_common(conf, node)

\* a _visit_helper that takes the bottom of the stack (the Module) as the
\* parent, and not its top
visit_helper_parent_root(ns, st, node_name, node_type, doc, lineno) ==
    LET parent == IF st /= <<>> THEN st[1] ELSE 0
        path == IF st = <<>> THEN node_name
                ELSE IF endswith(ns[parent].path, S_dotpy)
                     THEN ns[parent].path \o <<":">> \o node_name
                     ELSE ns[parent].path \o <<".">> \o node_name
    IN  [name |-> node_name,
         path |-> path,
         covered |-> has_doc(doc),
         level |-> Len(st),
         node_type |-> node_type,
         lineno |-> lineno,
         is_nested_func |-> is_nested_func(ns, parent, node_type),
         is_nested_cls |-> is_nested_cls(ns, parent, node_type),
         parent |-> parent]

\* the CovNode _visit_helper builds for a node visited with stack st and node
\* list ns; lineno is the node's position in the file (0: the Module has none)
visit_helper(ns, st, node_name, node_type, doc, lineno) ==
    LET parent == IF st /= <<>> THEN st[Len(st)] ELSE 0
        path == IF st = <<>> THEN node_name
                ELSE IF endswith(ns[parent].path, S_dotpy)
                     THEN ns[parent].path \o <<":">> \o node_name
                     ELSE ns[parent].path \o <<".">> \o node_name
    IN  [name |-> node_name,
         path |-> path,
         covered |-> has_doc(doc),
         level |-> Len(st),
         node_type |-> node_type,
         lineno |-> lineno,
         is_nested_func |-> is_nested_func(ns, parent, node_type),
         is_nested_cls |-> is_nested_cls(ns, parent, node_type),
         parent |-> parent]

\* the AST node the top frame of the walk is in (0: the Module); a visitor
\* is [stack, nodes, cursor]
TopLineno(v) == v.nodes[v.stack[Len(v.stack)]].lineno

\* generic_visit of the top frame has a definition left to dispatch: the next
\* node in document order lies inside the node of the top frame
HasNext(file, v) ==
    /\ v.stack /= <<>>
    /\ v.cursor >= 1
    /\ v.cursor <= Len(file.body)
    /\ IsInside(file.body, v.cursor, TopLineno(v))

\* a visitor that returned from an excluded definition without pruning it:
\* the traversal goes on with the first definition inside
after_ignored_descends(body, i) == i + 1

\* where the walk goes on after visit_ClassDef / visit_FunctionDef /
\* visit_AsyncFunctionDef returned at once for node i: generic_visit is not
\* called for it, so nothing inside it is dispatched
after_ignored(body, i) == SubtreeEnd(body, i) + 1

\* CoverageVisitor(filename, config)
NewVisitor == [stack |-> <<>>, nodes |-> <<>>, cursor |-> 0]

\* a _visit_helper that puts cov_node at the front of self.nodes
push_node_front(v, cov_node, next) ==
    [stack |-> Append(v.stack, 1),
     nodes |-> <<cov_node>> \o v.nodes,
     cursor |-> next]

\* _visit_helper from the creation of cov_node to the call of generic_visit
push_node(v, cov_node, next) ==
    [stack |-> Append(v.stack, Len(v.nodes) + 1),
     nodes |-> Append(v.nodes, cov_node),
     cursor |-> next]

\* visit_Module: _visit_helper up to its call of generic_visit
do_visit_Module(file, v) ==
    push_node(v, visit_helper(v.nodes, v.stack, file.filename, "Module",
                              file.doc, 0), 1)

\* _visit_helper for the definition at the cursor, up to its call of
\* generic_visit
record_def(file, v) ==
    LET node == file.body[v.cursor]
    IN  push_node(v, visit_helper(v.nodes, v.stack, node.name, node.type,
                                  node.doc, v.cursor), v.cursor + 1)

\* visit_ClassDef for the class at the cursor
do_visit_ClassDef(conf, file, v) ==
    IF is_class_ignored(conf, file.body[v.cursor])
    THEN [v EXCEPT !.cursor = after_ignored(file.body, v.cursor)]
    ELSE record_def(file, v)

\* visit_FunctionDef for the function at the cursor
do_visit_FunctionDef(conf, file, v) ==
    IF is_func_ignored(conf, file.body[v.cursor])
    THEN [v EXCEPT !.cursor = after_ignored(file.body, v.cursor)]
    ELSE record_def(file, v)

\* visit_AsyncFunctionDef for the async function at the cursor
do_visit_AsyncFunctionDef(conf, file, v) ==
    IF is_func_ignored(conf, file.body[v.cursor])
    THEN [v EXCEPT !.cursor = after_ignored(file.body, v.cursor)]
    ELSE record_def(file, v)

\* NodeVisitor.visit: the handler of the type of the node at the cursor
do_visit(conf, file, v) ==
    CASE file.body[v.cursor].type = "ClassDef" ->
            do_visit_ClassDef(conf, file, v)
      [] file.body[v.cursor].type = "FunctionDef" ->
            do_visit_FunctionDef(conf, file, v)
      [] file.body[v.cursor].type = "AsyncFunctionDef" ->
            do_visit_AsyncFunctionDef(conf, file, v)

\* the end of _visit_helper: generic_visit has returned, self.stack.pop()
do_return(v) == [v EXCEPT !.stack = SubSeq(@, 1, Len(@) - 1)]

\* visitor.visit(parsed_tree) from visitor v on, to its return
RECURSIVE run_visit(_, _, _)
run_visit(conf, file, v) ==
    IF v.cursor = 0 THEN run_visit(conf, file, do_visit_Module(file, v))
    ELSE IF v.stack = <<>> THEN v
    ELSE IF HasNext(file, v) THEN run_visit(conf, file, do_visit(conf, file, v))
    ELSE run_visit(conf, file, do_return(v))

\* the file _get_file_coverage is working on
File == filenames[fidx]

\* the visitor of the file as the variables hold it
Visitor == [stack |-> stack, nodes |-> nodes, cursor |-> cursor]

SetVisitor(v) ==
    /\ stack' = v.stack
    /\ nodes' = v.nodes
    /\ cursor' = v.cursor

\* _get_file_coverage, lines 250-255: read and parse the next file, make its
\* visitor and run it
get_file_coverage ==
    /\ pc = "get_coverage"
    /\ fidx < Len(filenames)
    /\ fidx' = fidx + 1
    /\ SetVisitor(run_visit(config, filenames[fidx + 1], NewVisitor))
    /\ pc' = "filter_nodes"
    /\ UNCHANGED <<config, filenames, filtered, file_results, results>>

\* the same, one handler of the visitor at a time: lines 250-254
parse_file ==
    /\ pc = "get_coverage"
    /\ fidx < Len(filenames)
    /\ fidx' = fidx + 1
    /\ SetVisitor(NewVisitor)
    /\ pc' = "visit"
    /\ UNCHANGED <<config, filenames, filtered, file_results, results>>

visit_Module ==
    /\ pc = "visit"
    /\ cursor = 0
    /\ SetVisitor(do_visit_Module(File, Visitor))
    /\ UNCHANGED <<config, filenames, fidx, pc, filtered, file_results, results>>

visit_ClassDef ==
    /\ pc = "visit"
    /\ HasNext(File, Visitor)
    /\ File.body[cursor].type = "ClassDef"
    /\ SetVisitor(do_visit_ClassDef(config, File, Visitor))
    /\ UNCHANGED <<config, filenames, fidx, pc, filtered, file_results, results>>

visit_FunctionDef ==
    /\ pc = "visit"
    /\ HasNext(File, Visitor)
    /\ File.body[cursor].type = "FunctionDef"
    /\ SetVisitor(do_visit_FunctionDef(config, File, Visitor))
    /\ UNCHANGED <<config, filenames, fidx, pc, filtered, file_results, results>>

visit_AsyncFunctionDef ==
    /\ pc = "visit"
    /\ HasNext(File, Visitor)
    /\ File.body[cursor].type = "AsyncFunctionDef"
    /\ SetVisitor(do_visit_AsyncFunctionDef(config, File, Visitor))
    /\ UNCHANGED <<config, filenames, fidx, pc, filtered, file_results, results>>

\* when the Module's frame returns, visitor.visit has returned
visit_return ==
    /\ pc = "visit"
    /\ stack /= <<>>
    /\ ~HasNext(File, Visitor)
    /\ SetVisitor(do_return(Visitor))
    /\ pc' = IF Len(stack) = 1 THEN "filter_nodes" ELSE "visit"
    /\ UNCHANGED <<config, filenames, fidx, filtered, file_results, results>>

-----------------------------------------------------------------------------
(* coverage.py: the filter stages.  A node list is a sequence of CovNode   *)
(* indexes into the objects heap (visitor.nodes as the visitor left it,    *)
(* covered flags as the Google stage may have changed them).               *)
(***************************************************************************)

Range(s) == {s[i] : i \in 1 .. Len(s)}

\* the inner loop of _filter_nodes for one node: one append per matching
\* pattern
RECURSIVE include_matches(_, _, _, _)
include_matches(regexps, k, heap, n) ==
    IF k > Len(regexps) THEN <<>>
    ELSE (IF re_match(regexps[k], heap[n].name) THEN <<n>> ELSE <<>>)
         \o include_matches(regexps, k + 1, heap, n)

\* the outer loop of _filter_nodes: [filtered, module_node] from position i on
RECURSIVE include_loop(_, _, _, _, _)
include_loop(conf, heap, ns, i, acc) ==
    IF i > Len(ns) THEN acc
    ELSE IF heap[ns[i]].node_type = "Module"
         THEN include_loop(conf, heap, ns, i + 1,
                           [acc EXCEPT !.module_node = ns[i]])
         ELSE include_loop(conf, heap, ns, i + 1,
                           [acc EXCEPT !.filtered =
                               @ \o include_matches(conf.include_regex, 1,
                                                    heap, ns[i])])

\* a _filter_nodes that puts the Module after the whitelisted nodes
filter_nodes_appends_module(conf, heap, ns) ==
    LET is_empty == 1 = Len(ns)
    IN  IF is_empty /\ conf.ignore_module THEN <<>>
        ELSE IF conf.include_regex = <<>> THEN ns
        ELSE LET r == include_loop(conf, heap, ns, 1,
                                   [filtered |-> <<>>, module_node |-> 0])
             IN  IF r.module_node /= 0 /\ r.filtered /= <<>>
                 THEN r.filtered \o <<r.module_node>>
                 ELSE r.filtered

\* a _filter_nodes that puts the Module first even when no node is kept
filter_nodes_keeps_module(conf, heap, ns) ==
    LET is_empty == 1 = Len(ns)
    IN  IF is_empty /\ conf.ignore_module THEN <<>>
        ELSE IF conf.include_regex = <<>> THEN ns
        ELSE LET r == include_loop(conf, heap, ns, 1,
                                   [filtered |-> <<>>, module_node |-> 0])
             IN  IF r.module_node /= 0
                 THEN <<r.module_node>> \o r.filtered
                 ELSE r.filtered

\* a _filter_nodes without the early return for a Module-only list
filter_nodes_no_early_return(conf, heap, ns) ==
    IF conf.include_regex = <<>> THEN ns
    ELSE LET r == include_loop(conf, heap, ns, 1,
                               [filtered |-> <<>>, module_node |-> 0])
         IN  IF r.module_node /= 0 /\ r.filtered /= <<>>
             THEN <<r.module_node>> \o r.filtered
             ELSE r.filtered

\* InterrogateCoverage._filter_nodes
filter_nodes(conf, heap, ns) ==
    LET is_empty == 1 = Len(ns)
    IN  IF is_empty /\ conf.ignore_module THEN <<>>
        ELSE IF conf.include_regex = <<>> THEN ns
        ELSE LET r == include_loop(conf, heap, ns, 1,
                                   [filtered |-> <<>>, module_node |-> 0])
             IN  IF r.module_node /= 0 /\ r.filtered /= <<>>
                 THEN <<r.module_node>> \o r.filtered
                 ELSE r.filtered

\* a nested-function filter that also drops what is declared directly inside
\* a nested function
filter_nested_functions_deep(heap, ns) ==
    SelectSeq(ns, LAMBDA n :
                     /\ ~heap[n].is_nested_func
                     /\ heap[n].parent /= 0 => ~heap[heap[n].parent].is_nested_func)

\* the list comprehension of _get_file_coverage under ignore_nested_functions
filter_nested_functions(heap, ns) ==
    SelectSeq(ns, LAMBDA n : ~heap[n].is_nested_func)

\* InterrogateCoverage._filter_inner_nested
filter_inner_nested(heap, ns) ==
    LET nested_cls == SelectSeq(ns, LAMBDA n : heap[n].is_nested_cls)
        inner_nested_nodes ==
            SelectSeq(ns, LAMBDA n : heap[n].parent \in Range(nested_cls))
        filtered_nodes ==
            SelectSeq(ns, LAMBDA n : n \notin Range(inner_nested_nodes))
    IN  SelectSeq(filtered_nodes, LAMBDA n : n \notin Range(nested_cls))

\* a loop body that makes a class-level __init__ equal to its class by
\* copying the flag of the class
google_step_copies(heap, n) ==
    IF heap[n].node_type = "FunctionDef" /\ heap[n].name = S_init
    THEN [heap EXCEPT ![n].covered = heap[heap[n].parent].covered]
    ELSE heap

\* a loop body that remembers across files that the style was applied and
\* applies it to the first file with a result only
google_step_once(heap, n) ==
    IF file_results = <<>>
       /\ heap[n].node_type = "FunctionDef" /\ heap[n].name = S_init
    THEN IF ~heap[n].covered /\ heap[heap[n].parent].covered
         THEN [heap EXCEPT ![n].covered = TRUE]
         ELSE IF heap[n].covered /\ ~heap[heap[n].parent].covered
              THEN [heap EXCEPT ![heap[n].parent].covered = TRUE]
              ELSE heap
    ELSE heap

\* the body of the loop of _set_google_style for node n
google_step(heap, n) ==
    IF heap[n].node_type = "FunctionDef" /\ heap[n].name = S_init
    THEN IF ~heap[n].covered /\ heap[heap[n].parent].covered
         THEN [heap EXCEPT ![n].covered = TRUE]
         ELSE IF heap[n].covered /\ ~heap[heap[n].parent].covered
              THEN [heap EXCEPT ![heap[n].parent].covered = TRUE]
              ELSE heap
    ELSE heap

\* InterrogateCoverage._set_google_style: the heap after the loop over ns
\* from position i on
RECURSIVE set_google_style(_, _, _)
set_google_style(heap, ns, i) ==
    IF i > Len(ns) THEN heap
    ELSE set_google_style(google_step(heap, ns[i]), ns, i + 1)

-----------------------------------------------------------------------------
(* coverage.py: the tallies and the verdict *)

\* a combine() that counts the Module whatever ignore_module says
Counted_all(heap, ns, ignore_module) == 1 .. Len(ns)

\* the positions of a node list that InterrogateFileResult.combine counts
Counted(heap, ns, ignore_module) ==
    {i \in 1 .. Len(ns) : ~(heap[ns[i]].node_type = "Module" /\ ignore_module)}

\* InterrogateFileResult(filename, ignore_module, nodes) after combine(); heap
\* holds the CovNode objects the node list refers to
file_combine(filename, ignore_module, heap, ns) ==
    LET total == Cardinality(Counted(heap, ns, ignore_module))
        covered == Cardinality({i \in Counted(heap, ns, ignore_module) :
                                   heap[ns[i]].covered})
    IN  [filename |-> filename,
         ignore_module |-> ignore_module,
         nodes |-> ns,
         heap |-> heap,
         total |-> total,
         covered |-> covered,
         missing |-> total - covered]

RECURSIVE SumOf(_, _, _)
SumOf(frs, i, field) ==
    IF i > Len(frs) THEN 0
    ELSE (CASE field = "total" -> frs[i].total
            [] field = "covered" -> frs[i].covered
            [] field = "missing" -> frs[i].missing)
         + SumOf(frs, i + 1, field)

\* a combine() that stops after the first file result
results_combine_first(res, frs) ==
    IF frs = <<>> THEN res
    ELSE [res EXCEPT !.covered = @ + frs[1].covered,
                     !.missing = @ + frs[1].missing,
                     !.total = @ + frs[1].total]

\* InterrogateResults.combine, from the fresh object (all counts 0)
results_combine(res, frs) ==
    [res EXCEPT !.covered = @ + SumOf(frs, 1, "covered"),
                !.missing = @ + SumOf(frs, 1, "missing"),
                !.total = @ + SumOf(frs, 1, "total")]

\* a perc_covered without the guard on an empty total
perc_covered_zero(r) ==
    IF r.total = 0 THEN [num |-> 0, den |-> 1]
    ELSE [num |-> 100 * r.covered, den |-> r.total]

\* BaseInterrogateResult.perc_covered, as the exact fraction num/den.  The
\* float (float(covered) / float(total)) * 100 rounds as this fraction does
\* to up to 3 places for every total below 40.
perc_covered(r) ==
    IF r.total = 0 THEN [num |-> 100, den |-> 1]
    ELSE [num |-> 100 * r.covered, den |-> r.total]

RECURSIVE Pow10(_)
Pow10(n) == IF n = 0 THEN 1 ELSE 10 * Pow10(n - 1)

\* a verdict that rounds the percentage to a whole number
round_to_whole(fail_under) == 0

\* A fail_under value is [type, num, scale]: the int num (scale 0) or the
\* float num / 10^scale.  str() writes a float with its trailing zeros
\* dropped but for one place ("80.0", "48.3"), an int with no point; round_to
\* is the negated exponent of the Decimal of that string.
RECURSIVE round_to(_)
round_to(fail_under) ==
    IF fail_under.type = "int" THEN 0
    ELSE IF fail_under.scale > 1 /\ fail_under.num % 10 = 0
         THEN round_to([fail_under EXCEPT !.num = @ \div 10, !.scale = @ - 1])
         ELSE IF fail_under.scale = 0 THEN 1 ELSE fail_under.scale

\* a round() that takes a tie to the unit above
round_half_up(x, ndigits) ==
    LET n == x.num * Pow10(ndigits)
        q == n \div x.den
    IN  IF 2 * (n % x.den) >= x.den THEN q + 1 ELSE q

\* round(x, ndigits) of a non-negative fraction, in units of 10^-ndigits:
\* to the nearest, a tie to the even unit
round(x, ndigits) ==
    LET n == x.num * Pow10(ndigits)
        q == n \div x.den
        r2 == 2 * (n % x.den)
    IN  IF r2 > x.den THEN q + 1
        ELSE IF r2 < x.den THEN q
        ELSE IF q % 2 = 0 THEN q ELSE q + 1

\* a comparison that also fails a percentage equal to fail_under
fails_under_or_equal(fail_under, perc) ==
    LET d == round_to(fail_under)
    IN  fail_under.num * Pow10(d) >= round(perc, d) * Pow10(fail_under.scale)

\* the comparison of _get_coverage, line 295:
\* fail_under > round(perc_covered, round_to)
fails_under(fail_under, perc) ==
    LET d == round_to(fail_under)
    IN  fail_under.num * Pow10(d) > round(perc, d) * Pow10(fail_under.scale)

-----------------------------------------------------------------------------
(* coverage.py: _get_file_coverage after the visit, and _get_coverage *)

AllOf(ns) == [i \in 1 .. Len(ns) |-> i]

\* _get_file_coverage, lines 257-259: _filter_nodes, and no result for a file
\* it leaves nothing of
filter_nodes_stage ==
    /\ pc = "filter_nodes"
    /\ LET filtered_nodes == filter_nodes(config, nodes, AllOf(nodes))
       IN  IF Len(filtered_nodes) = 0
           THEN /\ pc' = "get_coverage"
                /\ nodes' = <<>>
                /\ filtered' = <<>>
           ELSE /\ pc' = "nested_functions"
                /\ filtered' = filtered_nodes
                /\ UNCHANGED nodes
    /\ UNCHANGED <<config, filenames, fidx, stack, cursor, file_results, results>>

\* _get_file_coverage, lines 261-264
nested_functions_stage ==
    /\ pc = "nested_functions"
    /\ filtered' = IF config.ignore_nested_functions
                   THEN filter_nested_functions(nodes, filtered)
                   ELSE filtered
    /\ pc' = "nested_classes"
    /\ UNCHANGED <<config, filenames, fidx, stack, cursor, nodes, file_results,
                   results>>

\* _get_file_coverage, lines 265-266
nested_classes_stage ==
    /\ pc = "nested_classes"
    /\ filtered' = IF config.ignore_nested_classes
                   THEN filter_inner_nested(nodes, filtered)
                   ELSE filtered
    /\ pc' = "google_style"
    /\ UNCHANGED <<config, filenames, fidx, stack, cursor, nodes, file_results,
                   results>>

\* _get_file_coverage, lines 268-269
google_style_stage ==
    /\ pc = "google_style"
    /\ nodes' = IF config.docstring_style = "google"
                THEN set_google_style(nodes, filtered, 1)
                ELSE nodes
    /\ pc' = "combine"
    /\ UNCHANGED <<config, filenames, fidx, stack, cursor, filtered,
                   file_results, results>>

\* _get_file_coverage, lines 271-277, and the append of _get_coverage
combine_stage ==
    /\ pc = "combine"
    /\ file_results' = Append(file_results,
                              file_combine(File.filename, config.ignore_module,
                                           nodes, filtered))
    /\ pc' = "get_coverage"
    /\ nodes' = <<>>
    /\ filtered' = <<>>
    /\ UNCHANGED <<config, filenames, fidx, stack, cursor, results>>

\* _get_coverage, lines 287-298, after the last file
get_coverage_return ==
    /\ pc = "get_coverage"
    /\ fidx = Len(filenames)
    /\ LET combined == results_combine(results, file_results)
       IN  results' = [combined EXCEPT !.ret_code =
                          IF fails_under(config.fail_under,
                                         perc_covered(combined))
                          THEN 1 ELSE @]
    /\ pc' = "done"
    /\ UNCHANGED <<config, filenames, fidx, stack, cursor, nodes, filtered,
                   file_results>>

\* the stages of _get_file_coverage after the visit, and the end of the run
Stages ==
    \/ filter_nodes_stage
    \/ nested_functions_stage
    \/ nested_classes_stage
    \/ google_style_stage
    \/ combine_stage
    \/ get_coverage_return

\* the run, the visit of a file taken as one step
Next ==
    \/ get_file_coverage
    \/ Stages

\* the run, the visit of a file taken one visitor handler at a time
NextVisit ==
    \/ parse_file
    \/ visit_Module
    \/ visit_ClassDef
    \/ visit_FunctionDef
    \/ visit_AsyncFunctionDef
    \/ visit_return
    \/ Stages

-----------------------------------------------------------------------------
(* The inputs of a run: a configuration and the parsed files *)

\* InterrogateConfig() with its defaults
DefaultConfig ==
    [docstring_style |-> "sphinx",
     fail_under |-> [type |-> "float", num |-> 800, scale |-> 1],
     ignore_regex |-> <<>>,
     ignore_magic |-> FALSE,
     ignore_module |-> FALSE,
     ignore_private |-> FALSE,
     ignore_semiprivate |-> FALSE,
     ignore_init_method |-> FALSE,
     ignore_nested_classes |-> FALSE,
     ignore_nested_functions |-> FALSE,
     ignore_property_setters |-> FALSE,
     ignore_property_decorators |-> FALSE,
     ignore_overloaded_functions |-> FALSE,
     include_regex |-> <<>>]

Decl(type, name, doc, decorator_list) ==
    [type |-> type, name |-> name, doc |-> doc,
     decorator_list |-> decorator_list, parent |-> 0]

\* the definitions an added last definition can be directly inside of: the
\* module, the definition before it, and what that one is inside of
RightPath(body) ==
    {0} \cup {i \in 1 .. Len(body) : i = Len(body) \/ IsInside(body, Len(body), i)}

\* the bodies of n definitions drawn from decls, every nesting of them
RECURSIVE Bodies(_, _)
Bodies(decls, n) ==
    IF n = 0 THEN {<<>>}
    ELSE UNION {{Append(b, [d EXCEPT !.parent = p]) :
                    d \in decls, p \in RightPath(b)} :
                 b \in Bodies(decls, n - 1)}

\* the files of at most n definitions
FilesOf(names, docs, decls, n) ==
    UNION {{[filename |-> f, doc |-> d, body |-> b] :
               f \in names, d \in docs, b \in Bodies(decls, k)} : k \in 0 .. n}

\* the lists of at most k files of at most n modules and definitions together
RECURSIVE FileLists(_, _, _)
FileLists(files, k, n) ==
    IF k = 0 \/ n <= 0 THEN {<<>>}
    ELSE {<<>>} \cup
         UNION {{<<f>> \o rest :
                    f \in {g \in files : Len(g.body) = sz},
                    rest \in FileLists(files, k - 1, n - 1 - sz)} :
                  sz \in 0 .. n - 1}

S_m == <<"m">>
S_A == <<"A">>
S_mpy == <<"m", ".", "p", "y">>
S_text == <<"d">>

\* the definitions of the files of Spec: a documented class, a documented
\* __init__ and an undocumented function, nested in every way
PipelineDecls ==
    {Decl("ClassDef", S_A, Doc(S_text), <<>>),
     Decl("FunctionDef", S_init, Doc(S_text), <<>>),
     Decl("FunctionDef", S_m, NoDoc, <<>>)}

PipelineFiles == FilesOf({S_mpy}, {NoDoc}, PipelineDecls, MaxNodes - 1)

\* the configurations of Spec: ignore_module, ignore_nested_classes and
\* include_regex (none, one pattern, two patterns of which the empty one
\* matches every name) in every combination, and the Google style
PipelineConfigs ==
    {[DefaultConfig EXCEPT !.docstring_style = "google"]}
    \cup {[DefaultConfig EXCEPT !.ignore_module = im,
                                !.ignore_nested_classes = nc,
                                !.include_regex = inc] :
             im \in BOOLEAN, nc \in BOOLEAN,
             inc \in {<<>>, <<S_m>>, <<S_m, <<>>>>}}

PipelineLists == FileLists(PipelineFiles, MaxFiles, MaxNodes) \ {<<>>}

\* the state _get_coverage starts in, but for its inputs
Start ==
    /\ fidx = 0
    /\ pc = "get_coverage"
    /\ stack = <<>>
    /\ cursor = 0
    /\ nodes = <<>>
    /\ filtered = <<>>
    /\ file_results = <<>>
    /\ results = [total |-> 0, covered |-> 0, missing |-> 0, ret_code |-> 0]

Init ==
    /\ filenames \in PipelineLists
    /\ config \in PipelineConfigs
    /\ Start

Spec == Init /\ [][Next]_vars

-----------------------------------------------------------------------------
(* SpecGoogle: one file of classes and __init__ methods with and without   *)
(* docstrings and an undocumented function, nested in every way, under     *)
(* both docstring styles, with and without an include pattern that keeps   *)
(* the __init__ methods and drops their classes.                           *)

GoogleDecls ==
    {Decl("ClassDef", S_A, d, <<>>) : d \in {NoDoc, Doc(S_text)}}
    \cup {Decl("FunctionDef", S_init, d, <<>>) : d \in {NoDoc, Doc(S_text)}}
    \cup {Decl("FunctionDef", S_m, NoDoc, <<>>)}

GoogleLists ==
    {<<f>> : f \in FilesOf({S_mpy}, {NoDoc}, GoogleDecls, MaxNodes - 1)}

GoogleConfigs ==
    {[DefaultConfig EXCEPT !.docstring_style = st, !.include_regex = inc] :
        st \in {"sphinx", "google"}, inc \in {<<>>, <<S_init>>}}

InitGoogle ==
    /\ filenames \in GoogleLists
    /\ config \in GoogleConfigs
    /\ Start

SpecGoogle == InitGoogle /\ [][Next]_vars

-----------------------------------------------------------------------------
(* SpecVisit: one file whose definitions carry the names and decorators    *)
(* the visitor's ignore rules look at, under no rule, each rule alone and  *)
(* all rules together; the walk is taken one handler at a time.            *)
(***************************************************************************)

S__A == <<"_", "A">>
S___A == <<"_", "_", "A">>
S__m == <<"_", "m">>
S___m == <<"_", "_", "m">>
S___m__ == <<"_", "_", "m", "_", "_">>
S_x == <<"x">>
S_blank == <<" ">>

VisitDecls ==
    {Decl("ClassDef", S_A, Doc(S_text), <<>>),
     Decl("ClassDef", S__A, NoDoc, <<>>),
     Decl("ClassDef", S___A, Doc(S_text), <<>>),
     Decl("FunctionDef", S_m, Doc(S_text), <<>>),
     Decl("FunctionDef", S__m, NoDoc, <<>>),
     Decl("FunctionDef", S___m, Doc(S_text), <<>>),
     Decl("FunctionDef", S___m__, NoDoc, <<>>),
     Decl("FunctionDef", S_init, Doc(S_text), <<>>),
     Decl("FunctionDef", S_m, Doc(S_text), <<DecName(S_property)>>),
     Decl("FunctionDef", S_m, NoDoc, <<DecCall, DecAttr(S_x, S_setter)>>),
     Decl("FunctionDef", S_m, NoDoc, <<DecAttr(S_typing, S_overload)>>),
     Decl("FunctionDef", S_m, NoDoc, <<DecAttr(S_x, S_deleter)>>),
     Decl("AsyncFunctionDef", S_m, Doc(S_blank), <<DecName(S_overload)>>)}

VisitLists ==
    {<<f>> : f \in FilesOf({S_mpy}, {Doc(S_text)}, VisitDecls, MaxDefs)}

AllRules ==
    [DefaultConfig EXCEPT !.ignore_private = TRUE,
                          !.ignore_semiprivate = TRUE,
                          !.ignore_regex = <<S_A>>,
                          !.ignore_init_method = TRUE,
                          !.ignore_magic = TRUE,
                          !.ignore_property_decorators = TRUE,
                          !.ignore_property_setters = TRUE,
                          !.ignore_overloaded_functions = TRUE]

VisitConfigs ==
    {DefaultConfig, AllRules,
     [DefaultConfig EXCEPT !.ignore_private = TRUE],
     [DefaultConfig EXCEPT !.ignore_semiprivate = TRUE],
     [DefaultConfig EXCEPT !.ignore_regex = <<S_A>>],
     [DefaultConfig EXCEPT !.ignore_init_method = TRUE],
     [DefaultConfig EXCEPT !.ignore_magic = TRUE],
     [DefaultConfig EXCEPT !.ignore_property_decorators = TRUE],
     [DefaultConfig EXCEPT !.ignore_property_setters = TRUE],
     [DefaultConfig EXCEPT !.ignore_overloaded_functions = TRUE]}

InitVisit ==
    /\ filenames \in VisitLists
    /\ config \in VisitConfigs
    /\ Start

SpecVisit == InitVisit /\ [][NextVisit]_vars

-----------------------------------------------------------------------------
(* SpecThreshold: one file of top-level functions, the first of them       *)
(* documented, under a choice of fail_under values written as an int and   *)
(* as floats of one and two places.                                        *)
(***************************************************************************)

\* a module of k functions of which the first c have a docstring
FlatFile(k, c) ==
    [filename |-> S_mpy,
     doc |-> NoDoc,
     body |-> [i \in 1 .. k |->
                  Decl("FunctionDef", S_m,
                       IF i <= c THEN Doc(S_text) ELSE NoDoc, <<>>)]]

ThresholdLists ==
    UNION {{<<FlatFile(k, c)>> : c \in 0 .. k} : k \in 0 .. MaxFuncs}

IntVal(n) == [type |-> "int", num |-> n, scale |-> 0]
FloatVal(n, s) == [type |-> "float", num |-> n, scale |-> s]

FailUnders ==
    {IntVal(0), IntVal(12), IntVal(13), IntVal(67), IntVal(100),
     FloatVal(500, 1), FloatVal(5000, 2), FloatVal(625, 1), FloatVal(667, 1),
     FloatVal(6667, 2), FloatVal(6668, 2), FloatVal(800, 1), FloatVal(1001, 1)}

ThresholdConfigs ==
    {[DefaultConfig EXCEPT !.fail_under = fu, !.ignore_module = im] :
        fu \in FailUnders, im \in BOOLEAN}

InitThreshold ==
    /\ filenames \in ThresholdLists
    /\ config \in ThresholdConfigs
    /\ Start

SpecThreshold == InitThreshold /\ [][Next]_vars

-----------------------------------------------------------------------------
(* SpecNames: one file with one class, function or async function whose    *)
(* name is any string of underscores and letters up to MaxNameLen, or      *)
(* __init__, under the ignore rules that look at the name only; the walk   *)
(* is taken one handler at a time.                                         *)

NameChars == {"_", "m"}

\* the strings over NameChars of at most n characters
RECURSIVE NamesOf(_)
NamesOf(n) ==
    IF n = 0 THEN {<<>>}
    ELSE LET shorter == NamesOf(n - 1)
         IN  shorter \cup {Append(nm, c) :
                              nm \in {t \in shorter : Len(t) = n - 1},
                              c \in NameChars}

Names == (NamesOf(MaxNameLen) \ {<<>>}) \cup {S_init}

NameLists ==
    {<<[filename |-> S_mpy, doc |-> Doc(S_text),
        body |-> <<Decl(t, nm, Doc(S_text), <<>>)>>]>> :
        t \in {"ClassDef", "FunctionDef", "AsyncFunctionDef"}, nm \in Names}

NameConfigs ==
    {DefaultConfig,
     [DefaultConfig EXCEPT !.ignore_private = TRUE],
     [DefaultConfig EXCEPT !.ignore_semiprivate = TRUE],
     [DefaultConfig EXCEPT !.ignore_private = TRUE,
                           !.ignore_semiprivate = TRUE],
     [DefaultConfig EXCEPT !.ignore_magic = TRUE],
     [DefaultConfig EXCEPT !.ignore_init_method = TRUE],
     [DefaultConfig EXCEPT !.ignore_magic = TRUE,
                           !.ignore_init_method = TRUE]}

InitNames ==
    /\ filenames \in NameLists
    /\ config \in NameConfigs
    /\ Start

SpecNames == InitNames /\ [][NextVisit]_vars

-----------------------------------------------------------------------------
(* SpecConfig: the construction of the InterrogateConfig comes first.      *)
(* Until it is over, config holds the attribute values given to the        *)
(* constructor; the run goes on with the object only if the validator of   *)
(* docstring_style let it through, and stops at "ValueError" if it raised. *)

VALID_STYLES == {"sphinx", "google"}

\* a validator that lets every value through
check_style_any(value) == TRUE

\* InterrogateConfig._check_style: TRUE iff it returns without raising
check_style(value) == value \in VALID_STYLES

\* InterrogateConfig(...): the attrs-generated constructor runs the validator
new_InterrogateConfig ==
    /\ pc = "InterrogateConfig"
    /\ pc' = IF check_style(config.docstring_style) THEN "get_coverage"
             ELSE "ValueError"
    /\ UNCHANGED <<config, filenames, fidx, stack, cursor, nodes, filtered,
                   file_results, results>>

NextConfig == new_InterrogateConfig \/ Next

ConfigStyles == {"sphinx", "google", "Google", "numpy", "sphinx ", ""}

ConfigLists ==
    {<<f>> : f \in FilesOf({S_mpy}, {NoDoc}, PipelineDecls, MaxDefs)}

InitConfig ==
    /\ filenames \in ConfigLists
    /\ config \in {[DefaultConfig EXCEPT !.docstring_style = st,
                                         !.ignore_module = im] :
                      st \in ConfigStyles, im \in BOOLEAN}
    /\ fidx = 0
    /\ pc = "InterrogateConfig"
    /\ stack = <<>>
    /\ cursor = 0
    /\ nodes = <<>>
    /\ filtered = <<>>
    /\ file_results = <<>>
    /\ results = [total |-> 0, covered |-> 0, missing |-> 0, ret_code |-> 0]

SpecConfig == InitConfig /\ [][NextConfig]_vars

-----------------------------------------------------------------------------
(* SpecTwice: the same file is given twice to one run, so that its tree is *)
(* visited and filtered twice under one configuration; the file holds an   *)
(* undocumented class, a documented __init__ and an undocumented function, *)
(* nested in every way, and the configuration varies the style, the two    *)
(* nesting options and the include patterns.                               *)

TwiceDecls ==
    {Decl("ClassDef", S_A, NoDoc, <<>>),
     Decl("FunctionDef", S_init, Doc(S_text), <<>>),
     Decl("FunctionDef", S_m, NoDoc, <<>>)}

TwiceLists ==
    {<<f, f>> : f \in FilesOf({S_mpy}, {NoDoc}, TwiceDecls, MaxNodes - 1)}

TwiceConfigs ==
    {[DefaultConfig EXCEPT !.docstring_style = st,
                           !.ignore_nested_functions = nf,
                           !.ignore_nested_classes = nc,
                           !.include_regex = inc] :
        st \in {"sphinx", "google"}, nf \in BOOLEAN, nc \in BOOLEAN,
        inc \in {<<>>, <<S_m>>}}

InitTwice ==
    /\ filenames \in TwiceLists
    /\ config \in TwiceConfigs
    /\ Start

SpecTwice == InitTwice /\ [][Next]_vars

-----------------------------------------------------------------------------
(* SpecTree: one file, named m.py or m.pyi, whose definitions nest up to    *)
(* three deep; one of the names is "py", so that a path can end in ".py"    *)
(* below the Module, and one is semiprivate, so that a rule can skip it.    *)
(***************************************************************************)

S_py == <<"p", "y">>
S_mpyi == <<"m", ".", "p", "y", "i">>

TreeDecls ==
    {Decl("ClassDef", S_A, Doc(S_text), <<>>),
     Decl("FunctionDef", S_py, NoDoc, <<>>),
     Decl("FunctionDef", S__m, NoDoc, <<>>),
     Decl("AsyncFunctionDef", S_m, Doc(S_text), <<>>)}

TreeLists ==
    {<<f>> : f \in FilesOf({S_mpy, S_mpyi}, {NoDoc}, TreeDecls, MaxNodes - 1)}

TreeConfigs ==
    {DefaultConfig, [DefaultConfig EXCEPT !.ignore_semiprivate = TRUE]}

InitTree ==
    /\ filenames \in TreeLists
    /\ config \in TreeConfigs
    /\ Start

SpecTree == InitTree /\ [][NextVisit]_vars

-----------------------------------------------------------------------------
(* SpecFlags: one file whose definitions are those the ignore flags tell    *)
(* apart, nested in every way, under no flag, under each ignore flag alone, *)
(* under one ignore pattern and under one include pattern.                  *)
(***************************************************************************)

FlagDecls ==
    {Decl("ClassDef", S_A, Doc(S_text), <<>>),
     Decl("FunctionDef", S__m, NoDoc, <<>>),
     Decl("FunctionDef", S___m, NoDoc, <<>>),
     Decl("FunctionDef", S___m__, NoDoc, <<>>),
     Decl("FunctionDef", S_init, Doc(S_text), <<>>),
     Decl("FunctionDef", S_m, NoDoc, <<DecCall, DecAttr(S_x, S_setter)>>),
     Decl("AsyncFunctionDef", S_m, NoDoc, <<DecName(S_overload)>>)}

FlagLists ==
    {<<f>> : f \in FilesOf({S_mpy}, {NoDoc}, FlagDecls, MaxDefs)}

\* the ignore flags of the configuration
IgnoreFlags ==
    {"ignore_private", "ignore_semiprivate", "ignore_magic",
     "ignore_init_method", "ignore_property_decorators",
     "ignore_property_setters", "ignore_overloaded_functions",
     "ignore_nested_functions", "ignore_nested_classes", "ignore_module"}

\* the configuration with the flag turned on
WithFlag(conf, flag) == [conf EXCEPT ![flag] = TRUE]

FlagConfigs ==
    {DefaultConfig,
     [DefaultConfig EXCEPT !.ignore_regex = <<S_A>>],
     [DefaultConfig EXCEPT !.include_regex = <<S_m>>]}
    \cup {WithFlag(DefaultConfig, flag) : flag \in IgnoreFlags}

InitFlags ==
    /\ filenames \in FlagLists
    /\ config \in FlagConfigs
    /\ Start

SpecFlags == InitFlags /\ [][Next]_vars

-----------------------------------------------------------------------------
(* SpecEmptied: one file under every combination of ignore_module,          *)
(* ignore_nested_functions and ignore_nested_classes with no include        *)
(* pattern, one that matches the class and one that matches the function,   *)
(* so that the nested stages can remove all that the include stage kept.    *)
(***************************************************************************)

EmptiedLists == {<<f>> : f \in PipelineFiles}

EmptiedConfigs ==
    {[DefaultConfig EXCEPT !.ignore_module = im,
                           !.ignore_nested_functions = nf,
                           !.ignore_nested_classes = nc,
                           !.include_regex = inc] :
        im \in BOOLEAN, nf \in BOOLEAN, nc \in BOOLEAN,
        inc \in {<<>>, <<S_A>>, <<S_m>>}}

InitEmptied ==
    /\ filenames \in EmptiedLists
    /\ config \in EmptiedConfigs
    /\ Start

SpecEmptied == InitEmptied /\ [][Next]_vars

-----------------------------------------------------------------------------
(* Properties *)

\* the visit of file k of the run, and what _filter_nodes makes of it
VisitedNodes(k) == run_visit(config, filenames[k], NewVisitor).nodes

\* the files _get_coverage is through with
Processed == IF pc \in {"get_coverage", "done"} THEN fidx ELSE fidx - 1

\* a per-node ignore rule excludes the candidate
Excluded(conf, node) ==
    IF node.type = "ClassDef" THEN is_class_ignored(conf, node)
    ELSE is_func_ignored(conf, node)

\* C1: while and after a file is visited, no node of visitor.nodes is an AST
\* descendant (at any depth) of a class or function candidate that a per-node
\* ignore rule excludes, whatever the descendant itself looks like.
C1_ExcludedSubtreeAbsent ==
    (fidx >= 1 /\ nodes /= <<>>) =>
        \A i \in 1 .. Len(nodes) : \A a \in 1 .. Len(File.body) :
            (nodes[i].lineno /= 0 /\ IsInside(File.body, nodes[i].lineno, a))
                => ~Excluded(config, File.body[a])

\* C1 witness: the visit is over; a top-level candidate was excluded, and a
\* definition inside it that no rule excludes is not in visitor.nodes.
C1_Witness ==
    /\ pc = "filter_nodes"
    /\ \E a, j \in 1 .. Len(File.body) :
          /\ File.body[a].parent = 0
          /\ Excluded(config, File.body[a])
          /\ IsInside(File.body, j, a)
          /\ ~Excluded(config, File.body[j])
          /\ \A i \in 1 .. Len(nodes) : nodes[i].lineno /= j

IsInit(heap, n) == heap[n].node_type = "FunctionDef" /\ heap[n].name = S_init

\* C2: under style "google", in every file result every function named
\* __init__ whose parent is a class has the covered flag of that class.
C2_ClassInitEqual ==
    config.docstring_style = "google" =>
        \A k \in 1 .. Len(file_results) :
            LET fr == file_results[k]
            IN  \A i \in 1 .. Len(fr.nodes) :
                    LET n == fr.nodes[i]
                    IN  (IsInit(fr.heap, n)
                         /\ fr.heap[fr.heap[n].parent].node_type = "ClassDef")
                            => fr.heap[n].covered
                               = fr.heap[fr.heap[n].parent].covered

\* C3: the Google stage leaves the node list as it is, sets no covered flag
\* from true to false and changes nothing else of any node.
C3_GoogleOnlySetsCovered ==
    [][pc = "google_style" =>
          /\ filtered' = filtered
          /\ Len(nodes') = Len(nodes)
          /\ \A i \in 1 .. Len(nodes) :
                /\ nodes[i].covered => nodes'[i].covered
                /\ [nodes'[i] EXCEPT !.covered = nodes[i].covered] = nodes[i]]_vars

\* C3 witness: the Google stage has run and a definition without a docstring
\* is now covered.
C3_Witness ==
    /\ pc = "combine"
    /\ config.docstring_style = "google"
    /\ \E i \in 1 .. Len(nodes) :
          /\ nodes[i].lineno /= 0
          /\ nodes[i].covered
          /\ ~has_doc(File.body[nodes[i].lineno].doc)

\* perc_covered of a result is 100.0 when its total is 0 and
\* covered / total * 100 otherwise, and is always defined
PercOK(r) ==
    LET p == perc_covered(r)
    IN  /\ p.den > 0
        /\ IF r.total = 0 THEN p.num = 100 * p.den
           ELSE p.num * r.total = 100 * r.covered * p.den

OnlyEmptyModules == \A k \in 1 .. Len(filenames) : filenames[k].body = <<>>

\* C4: perc_covered of every file result and of the run result is 100.0 when
\* the total is 0 and covered / total * 100 otherwise; a finished run over
\* only empty modules with ignore_module reports 0, 0, 0 and 100.0.
C4_EmptyIsFullyCovered ==
    /\ PercOK(results)
    /\ \A k \in 1 .. Len(file_results) : PercOK(file_results[k])
    /\ (pc = "done" /\ config.ignore_module /\ OnlyEmptyModules) =>
          /\ results.total = 0
          /\ results.covered = 0
          /\ results.missing = 0
          /\ perc_covered(results) = [num |-> 100, den |-> 1]

\* C4 witness: a finished run over two empty modules with ignore_module.
C4_Witness ==
    /\ pc = "done"
    /\ config.ignore_module
    /\ OnlyEmptyModules
    /\ Len(filenames) = 2
    /\ results.total = 0

\* the decimal places fail_under is written with: none for an int, for a
\* float the fewest (at least one) that write its value exactly
WrittenPlaces(fu) ==
    IF fu.type = "int" THEN 0
    ELSE CHOOSE d \in 1 .. (fu.scale + 1) :
             /\ (fu.num * Pow10(d)) % Pow10(fu.scale) = 0
             /\ \A e \in 1 .. (d - 1) :
                    (fu.num * Pow10(e)) % Pow10(fu.scale) /= 0

\* the fraction x rounded to d places, in units of 10^-d: the nearest unit,
\* the even one of two equally near
Nearest(x, d) ==
    LET n == x.num * Pow10(d)
        q == n \div x.den
    IN  CHOOSE u \in {q, q + 1} :
            LET dist == IF 2 * n >= 2 * u * x.den
                        THEN 2 * n - 2 * u * x.den
                        ELSE 2 * u * x.den - 2 * n
            IN  \/ dist < x.den
                \/ dist = x.den /\ u % 2 = 0

\* fail_under is above / equal to u units of 10^-d
ThresholdAbove(fu, u, d) == fu.num * Pow10(d) > u * Pow10(fu.scale)
ThresholdEquals(fu, u, d) == fu.num * Pow10(d) = u * Pow10(fu.scale)

\* the run's percentage is below fail_under before any rounding
MeasuredBelow == perc_covered(results).num * Pow10(config.fail_under.scale)
                     < config.fail_under.num * perc_covered(results).den

\* C5: a finished run has ret_code 1 exactly when fail_under is above the
\* percentage rounded to the places fail_under is written with, so a
\* percentage that equals fail_under or rounds up to it passes; ret_code is
\* 0 before the run finishes.
C5_FailsIffThresholdAboveRounded ==
    LET fu == config.fail_under
        d == WrittenPlaces(fu)
        u == Nearest(perc_covered(results), d)
    IN  IF pc = "done"
        THEN /\ results.ret_code = (IF ThresholdAbove(fu, u, d) THEN 1 ELSE 0)
             /\ ThresholdEquals(fu, u, d) => results.ret_code = 0
        ELSE results.ret_code = 0

\* C5 witness: a finished run passes with a percentage below fail_under that
\* rounds up to it.
C5_Witness ==
    /\ pc = "done"
    /\ MeasuredBelow
    /\ ThresholdEquals(config.fail_under,
                       Nearest(perc_covered(results),
                               WrittenPlaces(config.fail_under)),
                       WrittenPlaces(config.fail_under))
    /\ results.ret_code = 0

RECURSIVE Tally(_, _, _)
Tally(fr, i, onlyCovered) ==
    IF i > Len(fr.nodes) THEN 0
    ELSE LET node == fr.heap[fr.nodes[i]]
         IN  (IF node.node_type = "Module" /\ fr.ignore_module THEN 0
              ELSE IF onlyCovered /\ ~node.covered THEN 0
              ELSE 1) + Tally(fr, i + 1, onlyCovered)

\* the file of the worked example: an undocumented module with a documented
\* class that has a documented __init__ and an undocumented method
ExampleFile ==
    [filename |-> S_mpy, doc |-> NoDoc,
     body |-> <<[Decl("ClassDef", S_A, Doc(S_text), <<>>) EXCEPT !.parent = 0],
                [Decl("FunctionDef", S_init, Doc(S_text), <<>>)
                    EXCEPT !.parent = 1],
                [Decl("FunctionDef", S_m, NoDoc, <<>>) EXCEPT !.parent = 1]>>]

\* C7: total, covered and missing of every file result are the counts of
\* the entries, the covered entries and the uncovered entries of its final
\* node list, the Module entry left out under ignore_module; the example
\* file alone gives 4/2/2, and 3/2/1 under ignore_module.
C7_TallyMatchesNodeList ==
    /\ \A k \in 1 .. Len(file_results) :
          LET fr == file_results[k]
          IN  /\ fr.total = Tally(fr, 1, FALSE)
              /\ fr.covered = Tally(fr, 1, TRUE)
              /\ fr.missing = fr.total - fr.covered
              /\ fr.ignore_module = config.ignore_module
    /\ (pc = "done" /\ filenames = <<ExampleFile>>
        /\ config.include_regex = <<>>) =>
          /\ Len(file_results) = 1
          /\ file_results[1].total = (IF config.ignore_module THEN 3 ELSE 4)
          /\ file_results[1].covered = 2
          /\ file_results[1].missing = (IF config.ignore_module THEN 1 ELSE 2)

\* C7 witness: the run over the example file with ignore_module has finished
\* with a file result of four entries and a total of 3.
C7_Witness ==
    /\ pc = "done"
    /\ filenames = <<ExampleFile>>
    /\ config.ignore_module
    /\ Len(file_results) = 1
    /\ Len(file_results[1].nodes) = 4
    /\ file_results[1].total = 3

\* C8: with ignore_nested_classes, no final node list holds a nested class
\* or a node whose parent is a nested class, whatever the other options.
C8_NoNestedClassContent ==
    config.ignore_nested_classes =>
        \A k \in 1 .. Len(file_results) :
            LET fr == file_results[k]
            IN  \A i \in 1 .. Len(fr.nodes) :
                    LET node == fr.heap[fr.nodes[i]]
                    IN  /\ ~node.is_nested_cls
                        /\ node.parent /= 0
                              => ~fr.heap[node.parent].is_nested_cls

\* the non-Module nodes of the visit that an include pattern matches from
\* the start of the name
Whitelisted ==
    {n \in 1 .. Len(nodes) :
        /\ nodes[n].node_type /= "Module"
        /\ \E k \in 1 .. Len(config.include_regex) :
               startswith(nodes[n].name, config.include_regex[k])}

\* what _filter_nodes returned, seen from the step that calls it
FilterResult == IF pc' = "nested_functions" THEN filtered' ELSE <<>>

\* the result of _filter_nodes under include patterns: the whitelisted nodes
\* and no other non-Module node; the Module first and only first when a
\* node is whitelisted; empty when none is
IncludePost(out) ==
    /\ \A n \in 1 .. Len(nodes) :
          nodes[n].node_type /= "Module"
              => (n \in Range(out) <=> n \in Whitelisted)
    /\ Whitelisted /= {} =>
          /\ out /= <<>>
          /\ nodes[out[1]].node_type = "Module"
          /\ \A i \in 2 .. Len(out) : nodes[out[i]].node_type /= "Module"
    /\ Whitelisted = {} => out = <<>>

OnlyModule(visited) == Len(visited) = 1

\* the node list of that file is not empty after _filter_nodes
Survives(visited) == filter_nodes(config, visited, AllOf(visited)) /= <<>>

\* between two files and at the end of _get_coverage: the file results are
\* those of the processed files that contribute, and every Module-only file
\* among them has a result of total 1, given for every processed file
\* whether it contributes (contributes[k]) and is Module-only (only[k])
ResultsMatch(contributes, only) ==
    LET ResultOf(k) == Cardinality({j \in 1 .. k : contributes[j]})
    IN  /\ Len(file_results)
              = Cardinality({k \in 1 .. Processed : contributes[k]})
        /\ \A k \in 1 .. Processed :
              (only[k] /\ contributes[k] /\ ResultOf(k) <= Len(file_results))
                  => /\ file_results[ResultOf(k)].total = 1
                     /\ Len(file_results[ResultOf(k)].nodes) = 1
        /\ pc = "done" => results.total = SumOf(file_results, 1, "total")

\* C10 as stated: a Module-only file contributes no file result under
\* ignore_module and a file result of total 1 otherwise; any other file
\* contributes unless its list is empty after _filter_nodes.
C10_ModuleOnlyByIgnoreModule ==
    LET visited == [k \in 1 .. Processed |-> VisitedNodes(k)]
        only == [k \in 1 .. Processed |-> OnlyModule(visited[k])]
        contributes == [k \in 1 .. Processed |->
                           IF only[k] THEN ~config.ignore_module
                           ELSE Survives(visited[k])]
    IN  pc \in {"get_coverage", "done"}
            => ResultsMatch(contributes, only)

\* C10: a Module-only file contributes a file result of total 1 when
\* neither ignore_module nor an include pattern is configured and no file
\* result otherwise; any other file contributes unless its list is empty
\* after _filter_nodes; the run total adds up the file results only.
C10_ModuleOnlyFile ==
    LET visited == [k \in 1 .. Processed |-> VisitedNodes(k)]
        only == [k \in 1 .. Processed |-> OnlyModule(visited[k])]
        contributes == [k \in 1 .. Processed |->
                           IF only[k]
                           THEN ~config.ignore_module
                                /\ config.include_regex = <<>>
                           ELSE Survives(visited[k])]
    IN  pc \in {"get_coverage", "done"}
            => ResultsMatch(contributes, only)

\* C10 witness: a finished run under ignore_module over a Module-only file
\* and a file with definitions has one file result.
C10_Witness ==
    /\ pc = "done"
    /\ config.ignore_module
    /\ Len(filenames) = 2
    /\ OnlyModule(VisitedNodes(1))
    /\ ~OnlyModule(VisitedNodes(2))
    /\ Len(file_results) = 1
    /\ results.total = file_results[1].total

\* the names of the definitions of the files of the run
NamesInRun ==
    UNION {{filenames[k].body[j].name : j \in 1 .. Len(filenames[k].body)} :
              k \in 1 .. Len(filenames)}

\* the visit of a file with one definition is over, and the definition was
\* recorded / skipped
VisitOver == pc = "filter_nodes" /\ Len(File.body) = 1
OneRecorded == VisitOver /\ Len(nodes) = 2
OneSkipped == VisitOver /\ Len(nodes) = 1

\* C11: no name is both private and semiprivate; a name that ends with two
\* underscores is neither; a name of one underscore and then another
\* character that does not end with two underscores (_foo) is semiprivate
\* and not private; a name of two underscores and then another character
\* that does not end with two underscores (__foo) is private and not
\* semiprivate.
C11_PrivateSemiprivateDisjoint ==
    \A nm \in NamesInRun :
        /\ ~(is_private(nm) /\ is_semiprivate(nm))
        /\ endswith(nm, S_dunder) => ~is_private(nm) /\ ~is_semiprivate(nm)
        /\ (Len(nm) >= 2 /\ nm[1] = "_" /\ nm[2] /= "_"
            /\ ~endswith(nm, S_dunder))
              => is_semiprivate(nm) /\ ~is_private(nm)
        /\ (Len(nm) >= 3 /\ nm[1] = "_" /\ nm[2] = "_" /\ nm[3] /= "_"
            /\ ~endswith(nm, S_dunder))
              => is_private(nm) /\ ~is_semiprivate(nm)

\* C11 witness: under ignore_private and ignore_semiprivate the visitor has
\* recorded a function whose name starts and ends with two underscores.
C11_Witness ==
    /\ OneRecorded
    /\ config.ignore_private
    /\ config.ignore_semiprivate
    /\ File.body[1].name = S___m__

\* C12: the constructor of InterrogateConfig raises when docstring_style is
\* neither "sphinx" nor "google" and nothing runs after that; it never
\* replaces the style it was given; every step of a run is taken with a
\* configuration whose style is one of the two.
C12_InvalidStyleRaises ==
    [][/\ config' = config
       /\ pc /= "ValueError"
       /\ pc = "InterrogateConfig" =>
             pc' = IF config.docstring_style \in {"sphinx", "google"}
                   THEN "get_coverage" ELSE "ValueError"
       /\ pc /= "InterrogateConfig" =>
             config.docstring_style \in {"sphinx", "google"}]_vars

\* C12 witness: the constructor has raised for the style "numpy".
C12_Witness ==
    /\ pc = "ValueError"
    /\ config.docstring_style = "numpy"
    /\ file_results = <<>>

RECURSIVE SeqSum(_)
SeqSum(q) == IF q = <<>> THEN 0 ELSE Head(q) + SeqSum(Tail(q))

\* the counts of a result are consistent
CountsConsistent(r) ==
    /\ 0 <= r.covered
    /\ r.covered <= r.total
    /\ r.missing = r.total - r.covered

\* C13: when the run is done its total, covered and missing are the sums of
\* those of the file results in file_results (all 0 before that); for the
\* run and for every file result 0 <= covered <= total and
\* missing = total - covered.
C13_RunIsSumOfFiles ==
    /\ IF pc = "done"
       THEN /\ results.total
                 = SeqSum([k \in 1 .. Len(file_results) |->
                              file_results[k].total])
            /\ results.covered
                 = SeqSum([k \in 1 .. Len(file_results) |->
                              file_results[k].covered])
            /\ results.missing
                 = SeqSum([k \in 1 .. Len(file_results) |->
                              file_results[k].missing])
       ELSE results.total = 0 /\ results.covered = 0 /\ results.missing = 0
    /\ CountsConsistent(results)
    /\ \A k \in 1 .. Len(file_results) : CountsConsistent(file_results[k])

\* C13 witness: a run is done with two file results that each count a
\* covered and an uncovered node.
C13_Witness ==
    /\ pc = "done"
    /\ Len(file_results) = 2
    /\ \A k \in 1 .. 2 : /\ file_results[k].covered > 0
                         /\ file_results[k].missing > 0
    /\ results.total = file_results[1].total + file_results[2].total

\* the final node list of a file result, entry by entry: name, path, level,
\* node type, nesting flags and covered flag
NodeView(fr) ==
    [i \in 1 .. Len(fr.nodes) |->
        LET node == fr.heap[fr.nodes[i]]
        IN  [name |-> node.name, path |-> node.path, level |-> node.level,
             node_type |-> node.node_type,
             is_nested_func |-> node.is_nested_func,
             is_nested_cls |-> node.is_nested_cls,
             covered |-> node.covered]]

IsFunc(node) == node.type \in {"FunctionDef", "AsyncFunctionDef"}

\* the name starts and ends with two underscores
Dunder(nm) == startswith(nm, S_dunder) /\ endswith(nm, S_dunder)

\* C15: of the files with one definition, the visitor under ignore_magic
\* alone skips exactly the functions and async functions of a name that
\* starts and ends with two underscores other than __init__; under
\* ignore_init_method alone exactly those named __init__; under both
\* exactly those of either kind; under none of these does it skip a class.
C15_MagicAndInitRules ==
    VisitOver =>
        LET node == File.body[1]
        IN  /\ config = [DefaultConfig EXCEPT !.ignore_magic = TRUE] =>
                  (OneSkipped <=> /\ IsFunc(node)
                                  /\ Dunder(node.name)
                                  /\ node.name /= S_init)
            /\ config = [DefaultConfig EXCEPT !.ignore_init_method = TRUE] =>
                  (OneSkipped <=> IsFunc(node) /\ node.name = S_init)
            /\ config = [DefaultConfig EXCEPT !.ignore_magic = TRUE,
                                              !.ignore_init_method = TRUE] =>
                  (OneSkipped <=> IsFunc(node) /\ Dunder(node.name))
            /\ (node.type = "ClassDef" /\ ~config.ignore_private
                /\ ~config.ignore_semiprivate) => OneRecorded

\* C15 witness: under ignore_magic alone the visitor has recorded a function
\* named __init__.
C15_Witness ==
    /\ OneRecorded
    /\ config = [DefaultConfig EXCEPT !.ignore_magic = TRUE]
    /\ File.body[1].type = "FunctionDef"
    /\ File.body[1].name = S_init

\* node j of visitor.nodes is a function named __init__ whose parent is a
\* class
ClassInit(j) ==
    /\ IsInit(nodes, j)
    /\ nodes[j].parent /= 0
    /\ nodes[nodes[j].parent].node_type = "ClassDef"

\* C16: a node is recorded with covered true iff it has a docstring that is
\* not blank; after that the flag changes only under the Google style, and
\* only for a function named __init__ whose parent is a class and for that
\* class, never for a Module or for a function that encloses a function
\* named __init__.
C16_OnlyClassInitFlagsChange ==
    [][/\ \A i \in (Len(nodes) + 1) .. Len(nodes') :
             nodes'[i].covered
                = has_doc(IF nodes'[i].lineno = 0 THEN filenames[fidx'].doc
                          ELSE filenames[fidx'].body[nodes'[i].lineno].doc)
       /\ \A i \in 1 .. Len(nodes) :
             (i <= Len(nodes') /\ nodes'[i].covered /= nodes[i].covered)
                => /\ config.docstring_style = "google"
                   /\ \/ ClassInit(i)
                      \/ /\ nodes[i].node_type = "ClassDef"
                         /\ \E j \in 1 .. Len(nodes) :
                               ClassInit(j) /\ nodes[j].parent = i]_vars

\* the decorator is the bare name id / an attribute access ending in attr
IsNamed(dec, id) == dec.kind = "Name" /\ dec.id = id
IsAttrNamed(dec, attr) == dec.kind = "Attribute" /\ dec.attr = attr

\* some decorator of the definition satisfies one of the three tests
DecoratedProperty(decl) ==
    \E k \in 1 .. Len(decl.decorator_list) :
       \/ IsNamed(decl.decorator_list[k], S_property)
       \/ IsAttrNamed(decl.decorator_list[k], S_setter)
       \/ IsAttrNamed(decl.decorator_list[k], S_deleter)
DecoratedSetter(decl) ==
    \E k \in 1 .. Len(decl.decorator_list) :
       IsAttrNamed(decl.decorator_list[k], S_setter)
DecoratedOverload(decl) ==
    \E k \in 1 .. Len(decl.decorator_list) :
       \/ IsNamed(decl.decorator_list[k], S_overload)
       \/ /\ IsAttrNamed(decl.decorator_list[k], S_overload)
          /\ decl.decorator_list[k].value_id = S_typing

\* an enabled private, semiprivate or regex rule matches the name
NameRuleMatches(nm) ==
    \/ /\ config.ignore_private
       /\ startswith(nm, S_dunder) /\ ~endswith(nm, S_dunder)
    \/ /\ config.ignore_semiprivate
       /\ startswith(nm, S_under) /\ ~startswith(nm, S_dunder)
       /\ ~endswith(nm, S_dunder)
    \/ \E k \in 1 .. Len(config.ignore_regex) :
          /\ Len(config.ignore_regex[k]) <= Len(nm)
          /\ \A c \in 1 .. Len(config.ignore_regex[k]) :
                nm[c] = config.ignore_regex[k][c]

\* an enabled rule matches the definition: for a class the three name rules,
\* for a function (async or not) any of the eight
RuleMatches(decl) ==
    \/ NameRuleMatches(decl.name)
    \/ /\ decl.type \in {"FunctionDef", "AsyncFunctionDef"}
       /\ \/ config.ignore_init_method /\ decl.name = S_init
          \/ /\ config.ignore_magic /\ decl.name /= S_init
             /\ startswith(decl.name, S_dunder) /\ endswith(decl.name, S_dunder)
          \/ config.ignore_property_decorators /\ DecoratedProperty(decl)
          \/ config.ignore_property_setters /\ DecoratedSetter(decl)
          \/ config.ignore_overloaded_functions /\ DecoratedOverload(decl)

\* definition j of the file was recorded by the visitor
Recorded(j) == \E i \in 1 .. Len(nodes) : nodes[i].lineno = j

\* the visitor reached definition j: every definition around it was recorded
Reached(j) == \A a \in 1 .. Len(File.body) : IsInside(File.body, j, a) => Recorded(a)

OnlySetters == [DefaultConfig EXCEPT !.ignore_property_setters = TRUE]
OnlyPropertyDecorators ==
    [DefaultConfig EXCEPT !.ignore_property_decorators = TRUE]

\* C17: the Module is always recorded; a class the visitor reaches is skipped
\* iff an enabled private, semiprivate or regex rule (matched from the start
\* of the name) matches it; a function or async function it reaches is
\* skipped iff an enabled rule among init-method, magic, property-decorator,
\* property-setter, overload, private, semiprivate and regex matches it; and
\* whatever the setter rule alone skips the property-decorator rule alone
\* skips too.
C17_SkippedIffRuleMatches ==
    (fidx >= 1 /\ pc = "filter_nodes")
       => /\ nodes[1].node_type = "Module" /\ nodes[1].lineno = 0
          /\ \A j \in 1 .. Len(File.body) :
                /\ Reached(j) => (Recorded(j) <=> ~RuleMatches(File.body[j]))
                /\ is_func_ignored(OnlySetters, File.body[j])
                      => is_func_ignored(OnlyPropertyDecorators, File.body[j])

\* C17 witness: the visit is over under the property-decorator rule alone;
\* the file held a function decorated with x.deleter, which was skipped, and
\* an async function decorated with overload, which was recorded.
C17_Witness ==
    /\ fidx >= 1 /\ pc = "filter_nodes"
    /\ config = OnlyPropertyDecorators
    /\ \E j, k \in 1 .. Len(File.body) :
          /\ File.body[j].decorator_list = <<DecAttr(S_x, S_deleter)>>
          /\ ~Recorded(j)
          /\ File.body[k].type = "AsyncFunctionDef"
          /\ DecoratedOverload(File.body[k])
          /\ Reached(k) /\ Recorded(k)

\* the number of underscores the name starts with
LeadingUnderscores(nm) ==
    CHOOSE n \in 0 .. Len(nm) :
       /\ \A c \in 1 .. n : nm[c] = "_"
       /\ n < Len(nm) => nm[n + 1] /= "_"

OnlyPrivate == [DefaultConfig EXCEPT !.ignore_private = TRUE]
OnlySemiprivate == [DefaultConfig EXCEPT !.ignore_semiprivate = TRUE]

\* the one definition of the file is classified and skipped as private iff
\* its name satisfies isPrivate, and as semiprivate iff it satisfies
\* isSemiprivate
ClassifiedBy(isPrivate(_), isSemiprivate(_)) ==
    VisitOver
       => LET nm == File.body[1].name
          IN  /\ is_private(nm) <=> isPrivate(nm)
              /\ is_semiprivate(nm) <=> isSemiprivate(nm)
              /\ config = OnlyPrivate => (OneSkipped <=> isPrivate(nm))
              /\ config = OnlySemiprivate => (OneSkipped <=> isSemiprivate(nm))

ExactlyTwoLeading(nm) ==
    LeadingUnderscores(nm) = 2 /\ ~endswith(nm, S_dunder)
AtLeastTwoLeading(nm) ==
    LeadingUnderscores(nm) >= 2 /\ ~endswith(nm, S_dunder)
ExactlyOneLeading(nm) ==
    LeadingUnderscores(nm) = 1 /\ ~endswith(nm, S_dunder)

\* C18 as stated: a name is private iff it starts with exactly two
\* underscores (not three or more) and does not end with two underscores; it
\* is semiprivate iff it starts with exactly one underscore and does not end
\* with two underscores.
C18_PrivateIffExactlyTwo == ClassifiedBy(ExactlyTwoLeading, ExactlyOneLeading)

\* C18 amended: a name is private iff it starts with two or more underscores
\* and does not end with two underscores; it is semiprivate iff it starts
\* with exactly one underscore and does not end with two underscores.
C18_PrivateIffAtLeastTwo == ClassifiedBy(AtLeastTwoLeading, ExactlyOneLeading)

\* C18 witness: under ignore_private alone the visitor has skipped a
\* definition whose name starts with three underscores.
C18_Witness ==
    /\ OneSkipped
    /\ config = OnlyPrivate
    /\ LeadingUnderscores(File.body[1].name) = 3

\* the type of the recorded parent of node i of visitor.nodes ("None" for the
\* Module, which has no parent)
ParentType(i) ==
    IF nodes[i].parent = 0 THEN "None" ELSE nodes[nodes[i].parent].node_type

\* C19: for every recorded function or async function, is_nested_func is true
\* iff its immediate recorded parent is a function or an async function
\* (FunctionDef or AsyncFunctionDef); it is false when the parent is the
\* Module or a class.
C19_NestedFuncIffParentIsFunction ==
    \A i \in 1 .. Len(nodes) :
       nodes[i].node_type \in {"FunctionDef", "AsyncFunctionDef"}
          => (nodes[i].is_nested_func
                <=> ParentType(i) \in {"FunctionDef", "AsyncFunctionDef"})

\* C20: for every recorded node, is_nested_cls is true iff the node is a
\* class and its immediate recorded parent is a class, a function or an
\* async function; it is false for every function node and for a class whose
\* parent is the Module.
C20_NestedClsIffClassInDefinition ==
    \A i \in 1 .. Len(nodes) :
       nodes[i].is_nested_cls
          <=> /\ nodes[i].node_type = "ClassDef"
              /\ ParentType(i) \in {"ClassDef", "FunctionDef", "AsyncFunctionDef"}

\* the number of ":" in the string
RECURSIVE Colons(_)
Colons(s) ==
    IF s = <<>> THEN 0
    ELSE (IF Head(s) = ":" THEN 1 ELSE 0) + Colons(Tail(s))

\* C21: the path of the Module is the file basename; the path of a node
\* whose parent is the Module is the module path, ":" and the node name; the
\* path of every deeper node is the parent's path, "." and the node name.  So
\* a path holds exactly one ":" (none for the Module), whatever the file's
\* extension and the names of the enclosing nodes, and properly extends the
\* parent's path.
C21_PathSegments ==
    \A i \in 1 .. Len(nodes) :
       LET n == nodes[i]
       IN  IF n.parent = 0
           THEN n.path = File.filename /\ Colons(n.path) = 0
           ELSE /\ n.path = nodes[n.parent].path
                              \o (IF nodes[n.parent].parent = 0
                                  THEN <<":">> ELSE <<".">>)
                              \o n.name
                /\ Colons(n.path) = 1
                /\ Len(n.path) > Len(nodes[n.parent].path)
                /\ startswith(n.path, nodes[n.parent].path)

\* the definitions of the file around AST node j, and the Module (0)
AncestorsOf(j) ==
    IF j = 0 THEN {}
    ELSE {0} \cup {a \in 1 .. Len(File.body) : IsInside(File.body, j, a)}

\* the stack st over the node list ns is a chain from the Module down: each
\* entry is the parent of the next and sits at the level of its position
IsChain(ns, st) ==
    \A k \in 1 .. Len(st) :
       /\ ns[st[k]].level = k - 1
       /\ ns[st[k]].parent = (IF k = 1 THEN 0 ELSE st[k - 1])
       /\ (k = 1) <=> (ns[st[k]].node_type = "Module")

\* C22: when a node is recorded the stack is exactly the chain of the node's
\* recorded ancestors from the Module down; the node's parent is the stack
\* top, its level is the stack length and is the parent's level plus one (0
\* and no parent only for the Module); the node is pushed, every return pops
\* just the top, and the stack is empty when the visit of the tree returns.
C22_StackIsAncestorChain ==
    [][pc = "visit"
         => /\ Len(nodes') > Len(nodes)
                 => LET i == Len(nodes')
                        n == nodes'[i]
                    IN  /\ i = Len(nodes) + 1
                        /\ IsChain(nodes, stack)
                        /\ {nodes[stack[k]].lineno : k \in 1 .. Len(stack)}
                              = AncestorsOf(n.lineno)
                        /\ n.parent = (IF stack = <<>> THEN 0
                                       ELSE stack[Len(stack)])
                        /\ n.level = Len(stack)
                        /\ (n.parent = 0) <=> (n.node_type = "Module")
                        /\ n.parent = 0 => n.level = 0
                        /\ n.parent /= 0 => n.level = nodes[n.parent].level + 1
                        /\ stack' = Append(stack, i)
            /\ Len(stack') < Len(stack)
                  => stack' = SubSeq(stack, 1, Len(stack) - 1) /\ nodes' = nodes
            /\ pc' /= "visit" => stack' = <<>>]_vars

\* C22 witness: a definition two deep has just been recorded, after a
\* definition before it was skipped: the stack holds the Module, its parent
\* and the definition itself.
C22_Witness ==
    /\ pc = "visit"
    /\ Len(stack) = 3
    /\ stack[3] = Len(nodes)
    /\ nodes[stack[3]].level = 2
    /\ nodes[stack[3]].parent = stack[2]
    /\ nodes[stack[3]].lineno > Len(nodes) - 1

\* node j of visitor.nodes is below node i: i is its parent, or the parent
\* of its parent, and so on
RECURSIVE IsBelow(_, _)
IsBelow(j, i) ==
    IF nodes[j].parent = 0 THEN FALSE
    ELSE nodes[j].parent = i \/ IsBelow(nodes[j].parent, i)

\* C23: visitor.nodes is in depth-first document order: every node comes
\* after its parent, the recorded descendants of a node come contiguously
\* right after it and before its next sibling, and siblings (all nodes, in
\* fact) come in source order.
C23_NodesInDocumentOrder ==
    /\ \A i \in 1 .. Len(nodes) : nodes[i].parent < i
    /\ \A i, j \in 1 .. Len(nodes) :
          i < j => /\ nodes[i].lineno < nodes[j].lineno
                   /\ IsBelow(j, i) => \A k \in i + 1 .. j : IsBelow(k, i)
                   /\ (nodes[i].parent = nodes[j].parent)
                         => \A k \in i + 1 .. j - 1 :
                               IsBelow(k, i) \/ IsBelow(k, nodes[i].parent)

\* C23 witness: the visit is over; a definition with a definition inside it
\* was recorded and then its next sibling.
C23_Witness ==
    /\ pc = "filter_nodes"
    /\ Len(nodes) = 4
    /\ nodes[3].parent = 2
    /\ nodes[4].parent = 1

\* the node list q without the nodes flagged is_nested_func, in the order
\* of q
RECURSIVE WithoutNestedFuncs(_)
WithoutNestedFuncs(q) ==
    IF q = <<>> THEN <<>>
    ELSE (IF nodes[Head(q)].is_nested_func THEN <<>> ELSE <<Head(q)>>)
         \o WithoutNestedFuncs(Tail(q))

\* C24: with ignore_nested_functions set, the nested-function stage removes
\* exactly the nodes whose is_nested_func flag is true and keeps every other
\* node of the list it is given, in the same order (a node declared inside a
\* removed nested function is kept unless it is flagged itself); with the
\* flag unset the stage changes nothing.
C24_NestedFunctionStage ==
    [][pc = "nested_functions"
         => /\ nodes' = nodes
            /\ IF config.ignore_nested_functions
               THEN /\ filtered' = WithoutNestedFuncs(filtered)
                    /\ \A k \in 1 .. Len(filtered) :
                          nodes[filtered[k]].is_nested_func
                             <=> filtered[k] \notin Range(filtered')
               ELSE filtered' = filtered]_vars

\* C24 witness: the stage has run with ignore_nested_functions set; it
\* removed a nested function and kept a class declared inside it.
C24_Witness ==
    /\ pc = "nested_classes"
    /\ config.ignore_nested_functions
    /\ \E k \in 1 .. Len(filtered) :
          LET n == nodes[filtered[k]]
          IN  /\ n.node_type = "ClassDef"
              /\ n.parent /= 0
              /\ nodes[n.parent].is_nested_func
              /\ n.parent \notin Range(filtered)

\* the node list ns over the objects heap holds the Module exactly once, at
\* level 0 and as its first element
ModuleOnceFirst(heap, ns) ==
    /\ ns /= <<>>
    /\ heap[ns[1]].node_type = "Module"
    /\ heap[ns[1]].level = 0
    /\ \A k \in 2 .. Len(ns) : heap[ns[k]].node_type /= "Module"

\* C25: the node list of every file result holds the file's Module node
\* exactly once, at level 0 and as the first element; no stage (include
\* patterns, nested functions, nested classes, Google style) removes or
\* duplicates the Module node of a file that yields a file result.
C25_ModuleOnceInFileResult ==
    /\ \A k \in 1 .. Len(file_results) :
          ModuleOnceFirst(file_results[k].heap, file_results[k].nodes)
    /\ pc \in {"nested_functions", "nested_classes", "google_style", "combine"}
          => ModuleOnceFirst(nodes, filtered)

\* C25 witness: both files gave a result under an include pattern with the
\* nested functions and the nested classes ignored and the Google style;
\* the result holds the Module and a whitelisted node.
C25_Witness ==
    /\ pc = "done"
    /\ Len(file_results) = 2
    /\ config.include_regex /= <<>>
    /\ config.ignore_nested_functions
    /\ config.ignore_nested_classes
    /\ config.docstring_style = "google"
    /\ Len(file_results[2].nodes) = 2

\* C26: the final node list of a file is a subsequence of the visitor's node
\* list: every recorded node appears at most once in it and the relative
\* order is kept, also when several include_regex patterns match the same
\* name; so the file's total never exceeds the number of recorded nodes.
C26_FinalListIsSubsequence ==
    \A k \in 1 .. Len(file_results) :
       LET fr == file_results[k]
       IN  /\ \A a, b \in 1 .. Len(fr.nodes) : a < b => fr.nodes[a] < fr.nodes[b]
           /\ fr.total <= Len(fr.heap)

\* what _get_file_coverage makes of the file under the configuration: the
\* definitions of the final node list (0: the Module) and the total
FinalOf(conf, file) ==
    LET heap == run_visit(conf, file, NewVisitor).nodes
        f1 == filter_nodes(conf, heap, AllOf(heap))
        f2 == IF conf.ignore_nested_functions
              THEN filter_nested_functions(heap, f1) ELSE f1
        f3 == IF conf.ignore_nested_classes
              THEN filter_inner_nested(heap, f2) ELSE f2
    IN  IF f1 = <<>> THEN [linenos |-> <<>>, total |-> 0]
        ELSE [linenos |-> [k \in 1 .. Len(f3) |-> heap[f3[k]].lineno],
              total |-> Cardinality(Counted(heap, f3, conf.ignore_module))]

\* the configurations with one more ignore flag turned on, or one more
\* ignore_regex pattern
OneMoreIgnored(conf) ==
    {WithFlag(conf, flag) : flag \in {g \in IgnoreFlags : ~conf[g]}}
    \cup {[conf EXCEPT !.ignore_regex = Append(@, p)] : p \in {S_A, S_under}}

\* the final node list and the total of the one file of the run as the run
\* left them
FinalOfRun ==
    IF file_results = <<>> THEN [linenos |-> <<>>, total |-> 0]
    ELSE LET fr == file_results[1]
         IN  [linenos |-> [k \in 1 .. Len(fr.nodes) |-> fr.heap[fr.nodes[k]].lineno],
              total |-> fr.total]

\* C27: turning on one more ignore flag (private, semiprivate, magic,
\* init-method, property-decorators, property-setters, overloaded-functions,
\* nested-functions, nested-classes, module) or adding one more ignore_regex
\* pattern, everything else equal, never adds a node to the file's final
\* node list and never increases the file's or the run's total.
C27_MoreIgnoredNeverMore ==
    (pc = "done" /\ Len(filenames) = 1)
       => /\ FinalOfRun = FinalOf(config, filenames[1])
          /\ results.total = FinalOfRun.total
          /\ \A conf \in OneMoreIgnored(config) :
                LET more == FinalOf(conf, filenames[1])
                IN  /\ Range(more.linenos) \subseteq Range(FinalOfRun.linenos)
                    /\ Len(more.linenos) <= Len(FinalOfRun.linenos)
                    /\ more.total <= FinalOfRun.total

\* C27 witness: the run is over under ignore_semiprivate alone with a file
\* result of three nodes, and turning ignore_private on as well leaves a
\* shorter list.
C27_Witness ==
    /\ pc = "done"
    /\ config = WithFlag(DefaultConfig, "ignore_semiprivate")
    /\ Len(filenames) = 1
    /\ FinalOfRun.total = 3
    /\ FinalOf(WithFlag(config, "ignore_private"), filenames[1]).total < 3

\* C28: _set_google_style is idempotent: applied a second time to the node
\* list it has processed it changes no covered flag, for every node list the
\* visitor and the earlier stages produce (functions named __init__ inside
\* one another or defined more than once in a class included); checked
\* here where every function named __init__ is directly inside a class.
C28_GoogleStyleIdempotent ==
    (/\ pc = "combine"
     /\ config.docstring_style = "google"
     /\ \A j \in 1 .. Len(nodes) : IsInit(nodes, j) => ClassInit(j))
       => set_google_style(nodes, filtered, 1) = nodes

\* the fail_under value a is at most the fail_under value b
FailUnderLeq(a, b) == a.num * Pow10(b.scale) <= b.num * Pow10(a.scale)

\* a run with the measured percentage of this one passes under fail_under fu
PassesUnder(fu) ==
    ~ThresholdAbove(fu, Nearest(perc_covered(results), WrittenPlaces(fu)),
                    WrittenPlaces(fu))

C30_NoZeroTotalFileResult ==
    \A k \in 1 .. Len(file_results) : file_results[k].total >= 1

=============================================================================
